---- MODULE Spec2Model ----
(***************************************************************************)
(* A model of the WS2812B driver of src/src/lib.rs: the RGB wire-byte      *)
(* conversion, the two pulse routines send_0 and send_1, and the init and  *)
(* upload methods of the WS2812B handle.                                   *)
(*                                                                         *)
(* The pin's port register and direction register are the bytes PORT and   *)
(* DDR.  Every register store and every delay of a call is recorded, with  *)
(* the tick at which it happens, in `trace`, the way a logic analyser on   *)
(* the pin would record it.  Time is counted in CPU ticks from the         *)
(* instruction costs the source states: a store (st) is 2 ticks and takes  *)
(* effect at its end, a nop is 1 tick.  Loop and call overhead, which the  *)
(* source does not state, is counted as 0 ticks.                           *)
(***************************************************************************)
EXTENDS Integers, Sequences, FiniteSets, TLC

VARIABLES
    self,    \* the handle: [data_line_pid]
    PORT,    \* the port register byte the pin's mask selects a bit of
    DDR,     \* the direction register byte (bit set: output)
    pc,      \* position of the running call, "Idle" between calls
    op,      \* the running (or last finished) call: "none", "init", "upload"
    buffer,  \* the buffer argument of that call
    ret,     \* what the last finished call returned: "none", "true", "false"
    pin,     \* local `pin` of init/upload
    ci,      \* upload: number of colors taken from the buffer iterator
    bytes,   \* upload: the array returned by to_bytes for the current color
    bi,      \* upload: number of bytes taken from the array iterator
    data,    \* upload: local `data`
    mask,    \* upload: local `mask`
    high,    \* send_0/send_1: local `high`
    low,     \* send_0/send_1: local `low`
    asm,     \* send_0/send_1: instructions of the asm block still to run
    now,     \* ticks elapsed since the running call began
    trace,   \* stores and delays of the running (or last finished) call
    entry,   \* PORT and DDR as they were when that call began
    prev     \* the call before it: [op, buffer, ret, trace, dur]

vars == <<self, PORT, DDR, pc, op, buffer, ret, pin, ci, bytes, bi, data, mask,
          high, low, asm, now, trace, entry, prev>>

locals == <<pin, ci, bytes, bi, data, mask, high, low, asm>>

(***************************************************************************)
(* Bounds of the model.                                                    *)
(***************************************************************************)
\* longest buffer passed to upload
MaxLen == 2
\* CPU ticks per microsecond (the clock the delay routine is built for)
TicksPerUs == 16

(***************************************************************************)
(* u8 arithmetic.                                                          *)
(***************************************************************************)
Byte == 0..255

RECURSIVE BitAnd(_, _)
BitAnd(a, b) ==
    IF a = 0 \/ b = 0 THEN 0
    ELSE (a % 2) * (b % 2) + 2 * BitAnd(a \div 2, b \div 2)

RECURSIVE BitOr(_, _)
BitOr(a, b) ==
    IF a = 0 THEN b
    ELSE IF b = 0 THEN a
    ELSE (IF a % 2 = 1 \/ b % 2 = 1 THEN 1 ELSE 0) + 2 * BitOr(a \div 2, b \div 2)

BitNot(a) == 255 - a

Shr1(a) == a \div 2

(***************************************************************************)
(* The external pin service (crate avr_pin) and delay service (avr_delay). *)
(***************************************************************************)
None == [none |-> TRUE]

NumPins == 8

RECURSIVE Pow2(_)
Pow2(n) == IF n = 0 THEN 1 ELSE 2 * Pow2(n - 1)

from_pid(pid) == IF pid < NumPins THEN [mask |-> Pow2(pid)] ELSE None

set_ddr_output(ddr, p) == BitOr(ddr, p.mask)

write_false(port, p) == BitAnd(port, BitNot(p.mask))

Event(o, v, t, p) == [op |-> o, val |-> v, at |-> t, port |-> p]

delay_ticks(us) == us * TicksPerUs

(***************************************************************************)
(* RGB::to_bytes                                                           *)
(***************************************************************************)
\* The channels in declaration order instead of wire order.
to_bytes_rgb_order(rgb) == <<rgb.r, rgb.g, rgb.b>>

to_bytes(rgb) == <<rgb.g, rgb.r, rgb.b>>

(***************************************************************************)
(* send_0 and send_1: the locals and the asm blocks.                       *)
(***************************************************************************)
StTicks == 2

NopTicks == 1

HighOf(port, m) == BitOr(port, m)

\* The whole port cleared instead of the pin's bit.
LowOfZero(port, m) == 0

LowOf(port, m) == BitAnd(port, BitNot(m))

nops(n) == [i \in 1..n |-> "nop"]

asm_send_0 == <<"st_high">> \o nops(4) \o <<"st_low">>

\* send_1 with the nop count of send_0.
asm_send_1_short == <<"st_high">> \o nops(4) \o <<"st_low">>

asm_send_1 == <<"st_high">> \o nops(11) \o <<"st_low">>

\* One instruction of an asm block, run on s = [port, now, trace] with the
\* block's operands h (high) and l (low).
ExecIns(ins, s, h, l) ==
    IF ins = "nop"
    THEN [s EXCEPT !.now = @ + NopTicks]
    ELSE LET v == IF ins = "st_high" THEN h ELSE l
             t == s.now + StTicks
         IN [port |-> v, now |-> t, trace |-> Append(s.trace, Event("st", v, t, v))]

RECURSIVE ExecAsm(_, _, _, _)
ExecAsm(code, s, h, l) ==
    IF code = <<>> THEN s
    ELSE ExecAsm(Tail(code), ExecIns(Head(code), s, h, l), h, l)

Machine == [port |-> PORT, now |-> now, trace |-> trace]

\* Entry of send_0 / send_1 up to the asm block: the two locals are computed
\* from the port value read now.
enter_send(code) ==
    /\ high' = HighOf(PORT, pin.mask)
    /\ low' = LowOf(PORT, pin.mask)
    /\ asm' = code
    /\ pc' = "asm"
    /\ UNCHANGED <<self, PORT, DDR, op, buffer, ret, pin, ci, bytes, bi, data,
                   mask, now, trace, entry, prev>>

send_0 == enter_send(asm_send_0)

send_1 == enter_send(asm_send_1)

\* The first instruction of the block: the store that raises the line.
asm_store_high ==
    /\ pc = "asm"
    /\ asm /= <<>>
    /\ Head(asm) = "st_high"
    /\ LET s == ExecAsm(<<Head(asm)>>, Machine, high, low)
       IN /\ PORT' = s.port
          /\ now' = s.now
          /\ trace' = s.trace
    /\ asm' = Tail(asm)
    /\ UNCHANGED <<self, DDR, pc, op, buffer, ret, pin, ci, bytes, bi, data,
                   mask, high, low, entry, prev>>

\* The rest of the block: the nops that hold the line high and the store that
\* lowers it; the routine then returns to upload's margin delay.
asm_hold_low ==
    /\ pc = "asm"
    /\ asm /= <<>>
    /\ Head(asm) /= "st_high"
    /\ LET s == ExecAsm(asm, Machine, high, low)
       IN /\ PORT' = s.port
          /\ now' = s.now
          /\ trace' = s.trace
    /\ asm' = <<>>
    /\ pc' = "margin"
    /\ UNCHANGED <<self, DDR, op, buffer, ret, pin, ci, bytes, bi, data, mask,
                   high, low, entry, prev>>

(***************************************************************************)
(* Calls and returns.                                                      *)
(***************************************************************************)
NoLocals ==
    /\ pin' = None
    /\ ci' = 0
    /\ bytes' = <<>>
    /\ bi' = 0
    /\ data' = 0
    /\ mask' = 0
    /\ high' = 0
    /\ low' = 0
    /\ asm' = <<>>

NoCall == [op |-> "none", buffer |-> <<>>, ret |-> "none", trace |-> <<>>, dur |-> 0]

begin_call(o, b, start) ==
    /\ pc = "Idle"
    /\ prev' = [op |-> op, buffer |-> buffer, ret |-> ret, trace |-> trace, dur |-> now]
    /\ op' = o
    /\ buffer' = b
    /\ ret' = "none"
    /\ now' = 0
    /\ trace' = <<>>
    /\ entry' = [port |-> PORT, ddr |-> DDR]
    /\ pc' = start
    /\ NoLocals
    /\ UNCHANGED <<self, PORT, DDR>>

return(v) ==
    /\ ret' = v
    /\ pc' = "Idle"
    /\ NoLocals
    /\ UNCHANGED <<self, PORT, DDR, op, buffer, now, trace, entry, prev>>

do_delay(us) ==
    /\ trace' = Append(trace, Event("delay", us, now, PORT))
    /\ now' = now + delay_ticks(us)

(***************************************************************************)
(* WS2812B::init                                                           *)
(***************************************************************************)
call_init == begin_call("init", <<>>, "init_resolve")

init_resolve ==
    /\ pc = "init_resolve"
    /\ IF from_pid(self.data_line_pid) = None
       THEN return("false")
       ELSE /\ pin' = from_pid(self.data_line_pid)
            /\ pc' = "init_set_ddr"
            /\ UNCHANGED <<self, PORT, DDR, op, buffer, ret, ci, bytes, bi, data,
                           mask, high, low, asm, now, trace, entry, prev>>

\* init without the direction write.
init_set_ddr_skipped ==
    /\ pc = "init_set_ddr"
    /\ pc' = "init_write"
    /\ UNCHANGED <<self, PORT, DDR, op, buffer, ret, now, trace, entry, prev>>
    /\ UNCHANGED locals

init_set_ddr ==
    /\ pc = "init_set_ddr"
    /\ DDR' = set_ddr_output(DDR, pin)
    /\ trace' = Append(trace, Event("ddr", DDR', now, PORT))
    /\ pc' = "init_write"
    /\ UNCHANGED <<self, PORT, op, buffer, ret, now, entry, prev>>
    /\ UNCHANGED locals

init_write ==
    /\ pc = "init_write"
    /\ PORT' = write_false(PORT, pin)
    /\ trace' = Append(trace, Event("st", PORT', now, PORT'))
    /\ pc' = "init_ret"
    /\ UNCHANGED <<self, DDR, op, buffer, ret, now, entry, prev>>
    /\ UNCHANGED locals

\* init reporting failure after a successful resolution.
init_ret_false ==
    /\ pc = "init_ret"
    /\ return("false")

init_ret ==
    /\ pc = "init_ret"
    /\ return("true")

(***************************************************************************)
(* WS2812B::upload                                                         *)
(***************************************************************************)
PidSamples == {2, 200}

RegSamples == {90, 165}

ColorSamples == {[r |-> 255, g |-> 128, b |-> 1], [r |-> 0, g |-> 0, b |-> 0]}

Buffers == UNION {[1..n -> ColorSamples] : n \in 0..MaxLen}

MarginUs == 1

LatchUs == 50

MaskInit == 128

call_upload == \E b \in Buffers : begin_call("upload", b, "upload_resolve")

\* A failed resolution that falls through to the end-of-frame delay.
upload_resolve_fallthrough ==
    /\ pc = "upload_resolve"
    /\ IF from_pid(self.data_line_pid) = None
       THEN /\ pc' = "latch"
            /\ UNCHANGED <<self, PORT, DDR, op, buffer, ret, now, trace, entry, prev>>
            /\ UNCHANGED locals
       ELSE /\ pin' = from_pid(self.data_line_pid)
            /\ pc' = "for_rgb"
            /\ UNCHANGED <<self, PORT, DDR, op, buffer, ret, ci, bytes, bi, data,
                           mask, high, low, asm, now, trace, entry, prev>>

upload_resolve ==
    /\ pc = "upload_resolve"
    /\ IF from_pid(self.data_line_pid) = None
       THEN return("false")
       ELSE /\ pin' = from_pid(self.data_line_pid)
            /\ pc' = "for_rgb"
            /\ UNCHANGED <<self, PORT, DDR, op, buffer, ret, ci, bytes, bi, data,
                           mask, high, low, asm, now, trace, entry, prev>>

\* for rgb in buffer
upload_for_rgb ==
    /\ pc = "for_rgb"
    /\ IF ci < Len(buffer)
       THEN /\ ci' = ci + 1
            /\ bytes' = to_bytes(buffer[ci + 1])
            /\ bi' = 0
            /\ pc' = "for_data"
       ELSE /\ pc' = "latch"
            /\ UNCHANGED <<ci, bytes, bi>>
    /\ UNCHANGED <<self, PORT, DDR, op, buffer, ret, pin, data, mask, high, low,
                   asm, now, trace, entry, prev>>

\* for data in (*rgb).to_bytes(), and `let mut mask: u8 = 0x80`
upload_for_data ==
    /\ pc = "for_data"
    /\ IF bi < Len(bytes)
       THEN /\ bi' = bi + 1
            /\ data' = bytes[bi + 1]
            /\ mask' = MaskInit
            /\ pc' = "while"
       ELSE /\ pc' = "for_rgb"
            /\ UNCHANGED <<bi, data, mask>>
    /\ UNCHANGED <<self, PORT, DDR, op, buffer, ret, pin, ci, bytes, high, low,
                   asm, now, trace, entry, prev>>

\* The bit test with its branches swapped.
bit_is_set_inverted(d, m) == BitAnd(d, m) = 0

bit_is_set(d, m) == BitAnd(d, m) > 0

\* while mask != 0 { if data & mask > 0 { send_1 } else { send_0 } ...
upload_while ==
    /\ pc = "while"
    /\ IF mask /= 0
       THEN IF bit_is_set(data, mask) THEN send_1 ELSE send_0
       ELSE /\ pc' = "for_data"
            /\ UNCHANGED <<self, PORT, DDR, op, buffer, ret, now, trace, entry, prev>>
            /\ UNCHANGED locals

\* The margin delay left out after a 1 bit.
upload_margin_after_0_only ==
    /\ pc = "margin"
    /\ IF bit_is_set(data, mask)
       THEN UNCHANGED <<trace, now>>
       ELSE do_delay(MarginUs)
    /\ mask' = Shr1(mask)
    /\ pc' = "while"
    /\ UNCHANGED <<self, PORT, DDR, op, buffer, ret, pin, ci, bytes, bi, data,
                   high, low, asm, entry, prev>>

\* ... delay_us(1); mask >>= 1; }
upload_margin ==
    /\ pc = "margin"
    /\ do_delay(MarginUs)
    /\ mask' = Shr1(mask)
    /\ pc' = "while"
    /\ UNCHANGED <<self, PORT, DDR, op, buffer, ret, pin, ci, bytes, bi, data,
                   high, low, asm, entry, prev>>

\* A latch delay of 5 microseconds.
upload_latch_short ==
    /\ pc = "latch"
    /\ do_delay(5)
    /\ pc' = "upload_ret"
    /\ UNCHANGED <<self, PORT, DDR, op, buffer, ret, entry, prev>>
    /\ UNCHANGED locals

\* delay_us(50)
upload_latch ==
    /\ pc = "latch"
    /\ do_delay(LatchUs)
    /\ pc' = "upload_ret"
    /\ UNCHANGED <<self, PORT, DDR, op, buffer, ret, entry, prev>>
    /\ UNCHANGED locals

upload_ret ==
    /\ pc = "upload_ret"
    /\ return("true")

(***************************************************************************)
(* The driver under any sequence of init and upload calls on one handle.   *)
(***************************************************************************)
Init ==
    /\ self \in {[data_line_pid |-> p] : p \in PidSamples}
    /\ PORT \in RegSamples
    /\ DDR \in RegSamples
    /\ pc = "Idle"
    /\ op = "none"
    /\ buffer = <<>>
    /\ ret = "none"
    /\ pin = None
    /\ ci = 0
    /\ bytes = <<>>
    /\ bi = 0
    /\ data = 0
    /\ mask = 0
    /\ high = 0
    /\ low = 0
    /\ asm = <<>>
    /\ now = 0
    /\ trace = <<>>
    /\ entry = [port |-> PORT, ddr |-> DDR]
    /\ prev = NoCall

Next ==
    \/ call_init
    \/ init_resolve
    \/ init_set_ddr
    \/ init_write
    \/ init_ret
    \/ call_upload
    \/ upload_resolve
    \/ upload_for_rgb
    \/ upload_for_data
    \/ upload_while
    \/ asm_store_high
    \/ asm_hold_low
    \/ upload_margin
    \/ upload_latch
    \/ upload_ret

Spec == Init /\ [][Next]_vars

(***************************************************************************)
(* RGB::to_bytes on its own, over colors whose channels take every value.  *)
(***************************************************************************)
EdgeBytes == {0, 1, 128, 255}

ByteColors ==
    {[r |-> x, g |-> y, b |-> z] : x \in Byte, y \in EdgeBytes, z \in EdgeBytes}
    \cup {[r |-> y, g |-> x, b |-> z] : x \in Byte, y \in EdgeBytes, z \in EdgeBytes}
    \cup {[r |-> y, g |-> z, b |-> x] : x \in Byte, y \in EdgeBytes, z \in EdgeBytes}

InitBytes ==
    /\ self = [data_line_pid |-> 2]
    /\ PORT = 0
    /\ DDR = 0
    /\ pc = "to_bytes"
    /\ op = "to_bytes"
    /\ buffer \in {<<c>> : c \in ByteColors}
    /\ ret = "none"
    /\ pin = None
    /\ ci = 0
    /\ bytes = <<>>
    /\ bi = 0
    /\ data = 0
    /\ mask = 0
    /\ high = 0
    /\ low = 0
    /\ asm = <<>>
    /\ now = 0
    /\ trace = <<>>
    /\ entry = [port |-> PORT, ddr |-> DDR]
    /\ prev = NoCall

to_bytes_call ==
    /\ pc = "to_bytes"
    /\ bytes' = to_bytes(buffer[1])
    /\ pc' = "to_bytes_ret"
    /\ UNCHANGED <<self, PORT, DDR, op, buffer, ret, pin, ci, bi, data, mask,
                   high, low, asm, now, trace, entry, prev>>

NextBytes == to_bytes_call

SpecBytes == InitBytes /\ [][NextBytes]_vars

(***************************************************************************)
(* What a probe on the pin reads off a trace.                              *)
(***************************************************************************)
HoldTicks0 == 6

HoldTicks1 == 13

Valid == self.data_line_pid < NumPins

PinMask == Pow2(self.data_line_pid)

\* bit of byte x selected by the one-bit mask m, by division
Bit(x, m) == (x \div m) % 2

\* byte x with the bit selected by m forced to 0
Without(x, m) == x - Bit(x, m) * m

Returned(o) == pc = "Idle" /\ op = o

Stores(tr) == SelectSeq(tr, LAMBDA e : e.op = "st")

Delays(tr) == SelectSeq(tr, LAMBDA e : e.op = "delay")

\* complete pulses of a trace: a store that sets the pin's bit, then one that clears it
NPulses(tr) == Len(Stores(tr)) \div 2

Rise(tr, k) == Stores(tr)[2 * k - 1]

Fall(tr, k) == Stores(tr)[2 * k]

Hold(tr, k) == Fall(tr, k).at - Rise(tr, k).at

WellFormedPulse(tr, k) ==
    /\ Bit(Rise(tr, k).val, PinMask) = 1
    /\ Bit(Fall(tr, k).val, PinMask) = 0

\* 1 for a long high hold, 0 for a short one, -1 for anything else
PulseBit(tr, k) ==
    IF Hold(tr, k) = HoldTicks1 THEN 1
    ELSE IF Hold(tr, k) = HoldTicks0 THEN 0
    ELSE -1

PulseBits(tr) == [k \in 1..NPulses(tr) |-> PulseBit(tr, k)]

\* the bit the k-th pulse (k from 0) of a frame stands for
ExpectedBit(buf, k) ==
    LET c == buf[(k \div 24) + 1]
        wire == <<c.g, c.r, c.b>>
        byte == wire[((k \div 8) % 3) + 1]
    IN (byte \div Pow2(7 - (k % 8))) % 2

ExpectedBits(buf) == [k \in 1..(24 * Len(buf)) |-> ExpectedBit(buf, k - 1)]

(***************************************************************************)
(* Claims.                                                                 *)
(***************************************************************************)

\* C1: an upload of N colors on a valid handle emits exactly 24 * N pulses,
\* each a store that raises the pin followed by one that lowers it, and the
\* k-th (k from 0) is held high long (a 1) exactly when bit 7 - k mod 8 of
\* byte (k div 8) mod 3 of the wire bytes [g, r, b] of color k div 24 is set,
\* and short (a 0) otherwise.
C1_PulsesMatchBits ==
    (Valid /\ Returned("upload")) =>
        /\ Len(Stores(trace)) = 2 * 24 * Len(buffer)
        /\ \A k \in 1..NPulses(trace) : WellFormedPulse(trace, k)
        /\ PulseBits(trace) = ExpectedBits(buffer)

\* a finished upload of two different colors, with pulses of both kinds
C1_Witness ==
    /\ Valid
    /\ Returned("upload")
    /\ ret = "true"
    /\ Len(buffer) = 2
    /\ buffer[1] /= buffer[2]
    /\ NPulses(trace) = 48
    /\ \E i, j \in 1..48 : PulseBit(trace, i) = 1 /\ PulseBit(trace, j) = 0

\* C2: on a handle whose identifier resolves to no pin, init and upload
\* return false, and at no point of the call is there a direction change, a
\* port store or a delay: PORT and DDR stay as they were at entry.
C2_InvalidNoWrites ==
    (~Valid) =>
        /\ trace = <<>>
        /\ PORT = entry.port
        /\ DDR = entry.ddr
        /\ now = 0
        /\ pc \in {"Idle", "init_resolve", "upload_resolve"}
        /\ (pc = "Idle" /\ op /= "none" => ret = "false")

\* an upload of a full buffer that failed, after an init that failed
C2_Witness ==
    /\ ~Valid
    /\ Returned("upload")
    /\ ret = "false"
    /\ Len(buffer) = MaxLen
    /\ prev.op = "init"
    /\ prev.ret = "false"

\* C4: init on a valid handle returns true, with the pin's direction bit set
\* (output) and its port bit clear (low), whatever they were before; the
\* direction is written first, the level second, and nothing else is.
C4_InitOutputLow ==
    /\ (Valid /\ pc = "init_write" => Bit(DDR, PinMask) = 1)
    /\ (Valid /\ Returned("init")) =>
          /\ ret = "true"
          /\ Bit(DDR, PinMask) = 1
          /\ Bit(PORT, PinMask) = 0
          /\ Len(trace) = 2
          /\ trace[1].op = "ddr" /\ Bit(trace[1].val, PinMask) = 1
          /\ trace[2].op = "st" /\ Bit(trace[2].val, PinMask) = 0

\* init has returned on a pin that was an input driven high
C4_Witness ==
    /\ Valid
    /\ Returned("init")
    /\ ret = "true"
    /\ Bit(entry.ddr, PinMask) = 0
    /\ Bit(entry.port, PinMask) = 1

\* C7: to_bytes of a color returns the three channels unchanged in the order
\* green, red, blue.
C7_ToBytesGRB ==
    pc = "to_bytes_ret" =>
        /\ Len(bytes) = 3
        /\ bytes[1] = buffer[1].g
        /\ bytes[2] = buffer[1].r
        /\ bytes[3] = buffer[1].b

\* a conversion of a color whose three channels differ
C7_Witness ==
    /\ pc = "to_bytes_ret"
    /\ buffer[1].r = 255
    /\ buffer[1].g = 77
    /\ buffer[1].b = 1
    /\ bytes = <<77, 255, 1>>

Period(tr, k) == Rise(tr, k + 1).at - Rise(tr, k).at

\* time the line is low between pulse k and the pulse after it
LowTime(tr, k) == Rise(tr, k + 1).at - Fall(tr, k).at

\* C3 as stated: every bit of an upload has the same start-to-start period,
\* whether it is a 0 or a 1.
C3_SamePeriod ==
    (Valid /\ Returned("upload")) =>
        \A i, j \in 1..(NPulses(trace) - 1) : Period(trace, i) = Period(trace, j)

\* C3 as amended: every bit has the same low time (the 2-tick lowering store
\* is followed by the 1-microsecond margin delay and the next 2-tick raising
\* store), but the high hold is 6 ticks for a 0 and 13 ticks for a 1, so the
\* period of a 1 bit is 7 ticks longer than the period of a 0 bit.
C3_SameLowTime ==
    (Valid /\ Returned("upload")) =>
        \A k \in 1..(NPulses(trace) - 1) :
            /\ LowTime(trace, k) = TicksPerUs + 2
            /\ Hold(trace, k) = IF ExpectedBit(buffer, k - 1) = 1 THEN 13 ELSE 6
            /\ Period(trace, k)
                  = (IF ExpectedBit(buffer, k - 1) = 1 THEN 7 ELSE 0) + 8 + TicksPerUs

\* an upload in which a 1 bit and a 0 bit are each followed by another bit
C3_Witness ==
    /\ Valid
    /\ Returned("upload")
    /\ \E i, j \in 1..(NPulses(trace) - 1) :
          /\ PulseBit(trace, i) = 1
          /\ PulseBit(trace, j) = 0
          /\ Period(trace, i) = Period(trace, j) + 7

\* what C5 says of a finished upload, but for the level of the line
C5_LatchLast ==
    /\ ret = "true"
    /\ trace /= <<>>
    /\ LET e == trace[Len(trace)]
       IN /\ e.op = "delay"
          /\ e.val >= 50
          /\ now = e.at + e.val * TicksPerUs
          /\ \A i \in 1..(Len(trace) - 1) :
                /\ trace[i].op \in {"st", "delay"}
                /\ trace[i].at <= e.at
                /\ (trace[i].op = "delay" => trace[i].val < 50)
    /\ NPulses(trace) = 24 * Len(buffer)
    /\ (Len(buffer) = 0 => Len(trace) = 1)

LatchLevel == Bit(trace[Len(trace)].port, PinMask)

\* number of bits the loop `while mask != 0 { ...; mask >>= 1 }` still sends
RECURSIVE BitsIn(_)
BitsIn(m) == IF m = 0 THEN 0 ELSE 1 + BitsIn(m \div 2)

\* position within one round of the loops, later positions lower
Rank ==
    CASE pc = "upload_resolve" -> 8
      [] pc = "while" -> 7
      [] pc = "for_data" -> 6
      [] pc = "for_rgb" -> 5
      [] pc = "asm" -> IF asm /= <<>> /\ Head(asm) = "st_high" THEN 4 ELSE 3
      [] pc = "margin" -> 2
      [] pc = "latch" -> 1
      [] OTHER -> 0

\* colors, bytes and bits still to send, and the position, as one number
Variant ==
    (Len(buffer) - ci) * 1000 + (3 - bi) * 100 + BitsIn(mask) * 10 + Rank

\* every step of an upload either returns or lowers the variant, which never
\* goes below zero: no upload runs forever
C5_Progress ==
    (Valid /\ op = "upload" /\ pc /= "Idle") =>
        \/ pc' = "Idle" /\ pc = "upload_ret" /\ ret' = "true"
        \/ pc' /= "Idle" /\ Variant' < Variant /\ Variant' >= 0

\* C5 as stated: every upload on a valid handle terminates and returns true,
\* and the last thing it does is a delay of at least 50 microseconds, after
\* every pulse, during which the line is low.
C5_LatchLow ==
    /\ [](Valid /\ Returned("upload") => C5_LatchLast /\ LatchLevel = 0)
    /\ [][C5_Progress]_vars

\* C5 as amended: the same, except that the line is low during the latch
\* delay when the buffer is not empty or the pin's port bit was low when
\* upload was called; an upload of the empty buffer leaves the level as it
\* found it.
C5_LatchLowUnlessEmpty ==
    /\ [](Valid /\ Returned("upload") =>
             /\ C5_LatchLast
             /\ LatchLevel = IF Len(buffer) > 0 THEN 0 ELSE Bit(entry.port, PinMask))
    /\ [][C5_Progress]_vars

\* an upload of the empty buffer has returned on a pin whose port bit is high
C5_Witness ==
    /\ Valid
    /\ Returned("upload")
    /\ ret = "true"
    /\ buffer = <<>>
    /\ Len(trace) = 1
    /\ LatchLevel = 1

\* C6: when an upload follows an upload of the same buffer on a valid
\* handle, both return true with the same pulses at the same times from the
\* start of the call, and at least 50 microseconds pass, with the line low,
\* between the last lowering store of the first and the return of the first,
\* the line still being low when the second begins.
C6_SameTwice ==
    (Valid /\ Returned("upload") /\ prev.op = "upload" /\ prev.buffer = buffer) =>
        /\ ret = "true"
        /\ prev.ret = "true"
        /\ PulseBits(trace) = PulseBits(prev.trace)
        /\ \A k \in 1..NPulses(trace) :
              /\ Rise(trace, k).at = Rise(prev.trace, k).at
              /\ Fall(trace, k).at = Fall(prev.trace, k).at
        /\ (Len(buffer) > 0 =>
              LET last == Fall(prev.trace, NPulses(prev.trace))
              IN /\ prev.dur - last.at >= 50 * TicksPerUs
                 /\ Bit(last.val, PinMask) = 0
                 /\ \A i \in 1..Len(prev.trace) :
                       prev.trace[i].at >= last.at => Bit(prev.trace[i].port, PinMask) = 0
                 /\ Bit(entry.port, PinMask) = 0)

\* the second of two uploads of the same two-color buffer has returned
C6_Witness ==
    /\ Valid
    /\ Returned("upload")
    /\ prev.op = "upload"
    /\ prev.buffer = buffer
    /\ Len(buffer) = 2
    /\ buffer[1] /= buffer[2]
    /\ NPulses(trace) = 48
    /\ NPulses(prev.trace) = 48

\* what C8 says of a finished call
C8_Finished ==
    (pc = "Idle" /\ op /= "none") =>
        /\ ret = IF Valid THEN "true" ELSE "false"
        /\ (ret = "false" => trace = <<>> /\ PORT = entry.port /\ DDR = entry.ddr)
        /\ (ret = "true" /\ op = "upload" => PulseBits(trace) = ExpectedBits(buffer))
        /\ (ret = "true" /\ op = "init" => NPulses(trace) = 0)

\* what C8 says of a step
C8_Step ==
    /\ self' = self
    /\ (op' /= op \/ buffer' /= buffer \/ prev' /= prev => pc = "Idle" /\ pc' /= "Idle")
    /\ (ret' /= ret => (pc = "Idle" /\ ret' = "none") \/ (pc' = "Idle" /\ ret' /= "none"))
    /\ (pc /= "Idle" /\ pc' = "Idle" => ret' \in {"true", "false"})
    /\ (ret' = "false" => trace' = <<>>)

\* C8: over any sequence of init and upload calls on one handle, the
\* identifier never changes, a call begins only in Idle and delivers its
\* result on returning to Idle, a call that fails has written nothing, and
\* the result and pulses of a finished call are those the identifier's
\* validity and the call's own buffer determine, whatever the calls before.
C8_CallsIndependent == []C8_Finished /\ [][C8_Step]_vars

\* an upload has returned after an upload of another buffer, and its pulses
\* are not those of the earlier one
C8_Witness ==
    /\ Valid
    /\ Returned("upload")
    /\ ret = "true"
    /\ prev.op = "upload"
    /\ prev.ret = "true"
    /\ Len(prev.buffer) = 2
    /\ Len(buffer) = 1
    /\ PulseBits(trace) = ExpectedBits(buffer)
    /\ PulseBits(prev.trace) /= PulseBits(trace)

\* C9: a finished upload of N colors on a valid handle consists of 24 * N
\* times two stores and a 1-microsecond delay, then the latch delay: one
\* margin delay follows each pulse, the line is low during each, no two
\* pulses are adjacent, and the last margin delay ends before the latch
\* delay begins.
C9_MarginAfterEachBit ==
    (Valid /\ Returned("upload")) =>
        /\ Len(trace) = 3 * 24 * Len(buffer) + 1
        /\ Len(Delays(trace)) = 24 * Len(buffer) + 1
        /\ \A k \in 1..(24 * Len(buffer)) :
              /\ trace[3 * k - 2].op = "st"
              /\ trace[3 * k - 1].op = "st"
              /\ trace[3 * k].op = "delay"
              /\ trace[3 * k].val = 1
              /\ trace[3 * k].at = trace[3 * k - 1].at
              /\ Bit(trace[3 * k].port, PinMask) = 0
              /\ trace[3 * k].at + TicksPerUs <= trace[3 * k + 1].at
        /\ trace[Len(trace)].op = "delay"
        /\ trace[Len(trace)].val >= 50

\* a finished upload of two colors with its 48 margin delays and latch delay
C9_Witness ==
    /\ Valid
    /\ Returned("upload")
    /\ Len(buffer) = 2
    /\ Len(Delays(trace)) = 49
    /\ Len(Stores(trace)) = 96

====
